---- MODULE Spec2Model ----
(***************************************************************************)
(* DALI bus codec of rPi-Dali-2-Click.                                     *)
(*                                                                         *)
(*   dali_monitor.py : class rx, the edge-driven Manchester receiver, and  *)
(*                     the monitor's main program (cleanup / atexit).      *)
(*   hass_dali.py    : class DaliTransmitter (the same class is repeated   *)
(*                     in test_waves.py), which builds a pigpio wave chain.*)
(*                                                                         *)
(* An edge notification is _cbe(gpio, level, tick).  The handler only uses *)
(* tick through edge_len = tickDiff(_last_edge_tick, tick), the time since *)
(* the previous edge, so an edge event is modelled by (level, edge_len)    *)
(* and a _timestamps entry by its 'level', 'len' and 'bits' items.         *)
(* level 2 is pigpio's TIMEOUT level (watchdog notification).  pigpio      *)
(* calls _cbe only while the callback is registered, one call at a time;   *)
(* the user callback given to rx is never None in the monitor.             *)
(***************************************************************************)
EXTENDS Integers, Sequences, FiniteSets, TLC

(* ---------------------------------------------------------------- bounds *)
\* the receiver accepts at most MaxEdges edges between two timeouts
MaxEdges == 6
\* longest frame the transmitter is asked to send
MaxBits == 3
\* largest repeat count passed to send
MaxRepeats == 2
\* longest raw edge trace that is replayed
MaxReplay == 6
\* largest duration (usec) handed to the classifier
MaxDur == 1000
\* most watchdog notifications delivered in a row without an edge between them
MaxTimeouts == 2
\* largest brightness an MQTT message asks for
MaxLevel == 3
MaxInFlight == 2

(* ------------------------------------------------- rx timing constants *)
MIN_TE == 350
MAX_TE == 490
MIN_2TE == 760
MAX_2TE == 900
\* DaliTransmitter te (half bit time) and pigpio's TIMEOUT level
TE == 417
TIMEOUT == 2
\* glitch filter width given to rx.__init__, RX watchdog in milliseconds
GLITCH == 150
WDOG_MS == 2
\* _prev has no value before the first edge (it is not set in __init__)
NoAttr == -1

VARIABLES
  \* ---- class rx (dali_monitor.py)
  _in_code, _edges, _code, _prev, _prev_edge_len, _timestamps,
  _cb,          \* TRUE while the edge callback is registered with pigpio
  wdog,         \* watchdog of the RX pin in ms, 0 = cancelled
  glitch,       \* glitch filter of the RX pin
  raised,       \* an exception left the handler
  \* ---- observation of the user callback
  calls,        \* the cb(frame, timestamps) invocations of the latest handler run
  attemptBad,   \* an edge after the start bit had an INVALID duration
  attemptAborted, \* a _decode of the attempt took an abort branch
  timeouts,     \* timeout events handled since the last edge
  \* ---- monitor main program
  pcMain, hwlog,
  \* ---- class DaliTransmitter
  waves, _start, _stop, _wid0, _wid1, pin, chain, txbusy, pcTx, txerr, txops, req,
  \* ---- bus between transmitter and receiver / replayed traces
  feed, phase, cut, cbCount, frames, trace, varied,
  \* ---- classifier inputs
  tHigh, tLow, tPrev, tOut,
  \* ---- transmitter programs: main of test_waves.py / hass_dali.py
  pcTxMain, txlog,
  \* ---- MQTT bridge (hass_dali.py): userdata and the running on_message
  state, current_brightness, pcMsg, msg, cmds, sent, published

rxVars == <<_in_code, _edges, _code, _prev, _prev_edge_len, _timestamps,
            _cb, wdog, glitch, raised>>
obsVars == <<calls, attemptBad, attemptAborted, timeouts>>
mainVars == <<pcMain, hwlog>>
txVars == <<waves, _start, _stop, _wid0, _wid1, pin, chain, txbusy, pcTx, txerr, txops, req>>
busVars == <<feed, phase, cut, cbCount, frames, trace, varied>>
clsVars == <<tHigh, tLow, tPrev, tOut>>
txMainVars == <<pcTxMain, txlog>>
mqttVars == <<state, current_brightness, pcMsg, msg, cmds, sent, published>>
appVars == <<txMainVars, mqttVars>>
vars == <<rxVars, obsVars, mainVars, txVars, busVars, clsVars, appVars>>

(* ------------------------------------------------------------ receiver *)

\* Classify with the window bounds included
Classify_inclusive(d) ==
  IF d >= MIN_2TE /\ d <= MAX_2TE THEN "LONG"
  ELSE IF ~(d >= MIN_TE /\ d <= MAX_TE) THEN "INVALID"
  ELSE "SHORT"

\* the two window tests of _decode, applied to one half of a cell
Classify(d) ==
  IF d > MIN_2TE /\ d < MAX_2TE THEN "LONG"
  ELSE IF ~(d > MIN_TE /\ d < MAX_TE) THEN "INVALID"
  ELSE "SHORT"

\* action = self._prev << 2, | 1 for a long first half, | 2 for a long second half
ActionCode(p, high_time, low_time) ==
  (p * 4) + (IF Classify(high_time) = "LONG" THEN 1 ELSE 0)
          + (IF Classify(low_time) = "LONG" THEN 2 ELSE 0)

\* Decode without the second shift of actions 2 and 7
Decode_one_shift(p, c, high_time, low_time) ==
  LET action == ActionCode(p, high_time, low_time)
      shifted == c * 2
  IN  IF action \in {1, 3, 6} THEN [code |-> shifted, prev |-> p, action |-> action]
      ELSE IF action \in {2, 4, 7}
        THEN [code |-> shifted + 1, prev |-> 1, action |-> action]
      ELSE [code |-> shifted, prev |-> 0, action |-> action]

\* _decode(high_time, low_time) on (_prev, _code): the new _code and _prev
Decode(p, c, high_time, low_time) ==
  LET action == ActionCode(p, high_time, low_time)
      shifted == c * 2
  IN  IF action \in {1, 3, 6} THEN [code |-> shifted, prev |-> p, action |-> action]
      ELSE IF action \in {2, 7}
        THEN [code |-> (shifted * 2) + 1, prev |-> 1, action |-> action]
      ELSE IF action = 4
        THEN [code |-> shifted + 1, prev |-> 1, action |-> action]
      ELSE [code |-> shifted, prev |-> 0, action |-> action]

\* whether _decode stores 0 into _in_code (the only value the flag ever gets)
DecodeAborts(p, high_time, low_time) ==
  \/ Classify(high_time) = "INVALID"
  \/ Classify(low_time) = "INVALID"
  \/ ActionCode(p, high_time, low_time) \in {1, 3, 6}

\* a cell _decode is expected to reject: an abort branch, or two long halves
Malformed(p, high_time, low_time) ==
  \/ DecodeAborts(p, high_time, low_time)
  \/ (Classify(high_time) = "LONG" /\ Classify(low_time) = "LONG")

\* the list _cbe appends to: emptied first whenever _in_code == 0
TraceBase == IF _in_code = 0 THEN <<>> ELSE _timestamps

\* stop that leaves the accumulator as it is
stop_keeps_code ==
  /\ _edges' = 0
  /\ _in_code' = 0
  /\ calls' = <<[frame |-> _code, timestamps |-> _timestamps,
                 edges |-> _edges, bad |-> attemptBad, aborted |-> attemptAborted,
                 level |-> TIMEOUT]>>
  /\ attemptBad' = FALSE
  /\ attemptAborted' = FALSE
  /\ timeouts' = timeouts + 1
  /\ UNCHANGED <<_code, _prev, _prev_edge_len, _timestamps>>

\* rx.stop(): hand the frame to the user callback and reset
stop ==
  /\ _edges' = 0
  /\ _code' = 0
  /\ _in_code' = 0
  /\ calls' = <<[frame |-> _code, timestamps |-> _timestamps,
                 edges |-> _edges, bad |-> attemptBad, aborted |-> attemptAborted,
                 level |-> TIMEOUT]>>
  /\ attemptBad' = FALSE
  /\ attemptAborted' = FALSE
  /\ timeouts' = timeouts + 1
  /\ UNCHANGED <<_prev, _prev_edge_len, _timestamps>>

\* the edge branch without the assignment of _prev at the start bit
edge_no_start_prev(level, edge_len) ==
  /\ IF _edges < 2
       THEN /\ UNCHANGED <<_code, _prev, _prev_edge_len, raised>>
            /\ _in_code' = _in_code
       ELSE IF _edges % 2 = 1
         THEN IF _prev = NoAttr
                THEN /\ raised' = TRUE
                     /\ UNCHANGED <<_code, _prev, _prev_edge_len, _in_code>>
                ELSE LET r == Decode(_prev, _code, _prev_edge_len, edge_len)
                     IN  /\ _code' = r.code
                         /\ _prev' = r.prev
                         /\ _in_code' = IF DecodeAborts(_prev, _prev_edge_len, edge_len)
                                          THEN 0 ELSE _in_code
                         /\ UNCHANGED <<_prev_edge_len, raised>>
         ELSE /\ _prev_edge_len' = edge_len
              /\ UNCHANGED <<_code, _prev, _in_code, raised>>
  /\ _edges' = _edges + 1
  /\ _timestamps' = Append(TraceBase, [level |-> level, len |-> edge_len,
                                       bits |-> _edges + 1])
  /\ calls' = <<>>
  /\ attemptBad' = (attemptBad \/ (_edges >= 2 /\ Classify(edge_len) = "INVALID"))
  /\ attemptAborted' = (attemptAborted \/ (_edges >= 2 /\ _edges % 2 = 1 /\ _prev # NoAttr
                                            /\ Malformed(_prev, _prev_edge_len, edge_len)))
  /\ timeouts' = 0

\* the edge branch pairing the cells by the direction of the edge
edge_decode_on_level(level, edge_len) ==
  /\ IF _edges < 2
       THEN /\ _prev' = 1
            /\ UNCHANGED <<_code, _prev_edge_len, raised>>
            /\ _in_code' = _in_code
       ELSE IF level = 1
         THEN IF _prev = NoAttr
                THEN /\ raised' = TRUE
                     /\ UNCHANGED <<_code, _prev, _prev_edge_len, _in_code>>
                ELSE LET r == Decode(_prev, _code, _prev_edge_len, edge_len)
                     IN  /\ _code' = r.code
                         /\ _prev' = r.prev
                         /\ _in_code' = IF DecodeAborts(_prev, _prev_edge_len, edge_len)
                                          THEN 0 ELSE _in_code
                         /\ UNCHANGED <<_prev_edge_len, raised>>
         ELSE /\ _prev_edge_len' = edge_len
              /\ UNCHANGED <<_code, _prev, _in_code, raised>>
  /\ _edges' = _edges + 1
  /\ _timestamps' = Append(TraceBase, [level |-> level, len |-> edge_len,
                                       bits |-> _edges + 1])
  /\ calls' = <<>>
  /\ attemptBad' = (attemptBad \/ (_edges >= 2 /\ Classify(edge_len) = "INVALID"))
  /\ attemptAborted' = (attemptAborted \/ (_edges >= 2 /\ _edges % 2 = 1 /\ _prev # NoAttr
                                            /\ Malformed(_prev, _prev_edge_len, edge_len)))
  /\ timeouts' = 0

\* the edge branch of _cbe (level < 2)
edge(level, edge_len) ==
  /\ IF _edges < 2
       THEN /\ _prev' = 1
            /\ UNCHANGED <<_code, _prev_edge_len, raised>>
            /\ _in_code' = _in_code
       ELSE IF _edges % 2 = 1
         THEN IF _prev = NoAttr
                THEN /\ raised' = TRUE
                     /\ UNCHANGED <<_code, _prev, _prev_edge_len, _in_code>>
                ELSE LET r == Decode(_prev, _code, _prev_edge_len, edge_len)
                     IN  /\ _code' = r.code
                         /\ _prev' = r.prev
                         /\ _in_code' = IF DecodeAborts(_prev, _prev_edge_len, edge_len)
                                          THEN 0 ELSE _in_code
                         /\ UNCHANGED <<_prev_edge_len, raised>>
         ELSE /\ _prev_edge_len' = edge_len
              /\ UNCHANGED <<_code, _prev, _in_code, raised>>
  /\ _edges' = _edges + 1
  /\ _timestamps' = Append(TraceBase, [level |-> level, len |-> edge_len,
                                       bits |-> _edges + 1])
  /\ calls' = <<>>
  /\ attemptBad' = (attemptBad \/ (_edges >= 2 /\ Classify(edge_len) = "INVALID"))
  /\ attemptAborted' = (attemptAborted \/ (_edges >= 2 /\ _edges % 2 = 1 /\ _prev # NoAttr
                                            /\ Malformed(_prev, _prev_edge_len, edge_len)))
  /\ timeouts' = 0

\* _cbe(gpio, level, tick): cancel the watchdog, then edge or end of frame
_cbe(level, edge_len) ==
  /\ _cb
  /\ ~raised
  /\ IF level < 2
       THEN /\ edge(level, edge_len)
            /\ wdog' = WDOG_MS
       ELSE /\ stop
            /\ wdog' = 0
            /\ UNCHANGED raised
  /\ UNCHANGED <<_cb, glitch>>

\* rx.cancel without the test of _cb
rx_cancel_unguarded ==
  /\ glitch' = 0
  /\ wdog' = 0
  /\ _cb' = FALSE
  /\ hwlog' = hwlog \o <<"set_glitch_filter", "set_watchdog", "cb_cancel">>

\* rx.cancel()
rx_cancel ==
  IF _cb
    THEN /\ glitch' = 0
         /\ wdog' = 0
         /\ _cb' = FALSE
         /\ hwlog' = hwlog \o <<"set_glitch_filter", "set_watchdog", "cb_cancel">>
    ELSE UNCHANGED <<glitch, wdog, _cb, hwlog>>

(* ------------------------------------------------- monitor main program *)

\* pi.stop()
pi_stop == hwlog' = Append(hwlog, "pi_stop")

Durations == {TE, 2 * TE, 600}

EdgeEvent ==
  /\ _edges < MaxEdges
  /\ \E level \in {0, 1}, d \in Durations : _cbe(level, d)
  /\ UNCHANGED <<mainVars, txVars, busVars, clsVars, appVars>>

TimeoutEvent ==
  /\ timeouts < MaxTimeouts
  /\ _cbe(TIMEOUT, 0)
  /\ UNCHANGED <<mainVars, txVars, busVars, clsVars, appVars>>

\* Ctrl+C while the main loop sleeps: falls through to the explicit cleanup()
KeyboardInterrupt ==
  /\ pcMain = "loop"
  /\ pcMain' = "cleanup_cancel"
  /\ UNCHANGED <<rxVars, obsVars, hwlog, txVars, busVars, clsVars, appVars>>

\* any other way out of the loop: only the atexit handler runs
OtherExit ==
  /\ pcMain = "loop"
  /\ pcMain' = "atexit_cancel"
  /\ UNCHANGED <<rxVars, obsVars, hwlog, txVars, busVars, clsVars, appVars>>

\* cleanup(), first statement
CleanupCancel ==
  /\ pcMain \in {"cleanup_cancel", "atexit_cancel"}
  /\ rx_cancel
  /\ pcMain' = IF pcMain = "cleanup_cancel" THEN "cleanup_stop" ELSE "atexit_stop"
  /\ UNCHANGED <<_in_code, _edges, _code, _prev, _prev_edge_len, _timestamps, raised,
                 obsVars, txVars, busVars, clsVars, appVars>>

\* cleanup(), second statement; after the explicit call atexit runs it again
CleanupStop ==
  /\ pcMain \in {"cleanup_stop", "atexit_stop"}
  /\ pi_stop
  /\ pcMain' = IF pcMain = "cleanup_stop" THEN "atexit_cancel" ELSE "exited"
  /\ UNCHANGED <<rxVars, obsVars, txVars, busVars, clsVars, appVars>>

(* --------------------------------------------------------- transmitter *)

TX_PIN == 5
Mask == 2 ^ TX_PIN

\* pigpio.pulse(gpio_on, gpio_off, delay)
pulse(gpio_on, gpio_off, delay) == [on |-> gpio_on, off |-> gpio_off, delay |-> delay]

\* _make_waves with a stop wave of one half bit
MakeWaves_short_stop ==
  LET tstop == TE
      wfStart == <<pulse(Mask, 0, TE), pulse(0, Mask, TE)>>
      wfStop == <<pulse(0, Mask, tstop)>>
      wf0 == <<pulse(0, Mask, TE), pulse(Mask, 0, TE)>>
      wf1 == <<pulse(Mask, 0, TE), pulse(0, Mask, TE)>>
  IN  [waves |-> <<wfStart, wfStop, wf0, wf1>>,
       start |-> 0, stop |-> 1, wid0 |-> 2, wid1 |-> 3]

\* _make_waves(): four wave_add_generic / wave_create pairs; wave_create hands
\* out the ids 0, 1, 2, ... and waves[id + 1] holds the pulses of wave id
MakeWaves ==
  LET tstop == 2 * TE
      wfStart == <<pulse(Mask, 0, TE), pulse(0, Mask, TE)>>
      wfStop == <<pulse(0, Mask, tstop)>>
      wf0 == <<pulse(0, Mask, TE), pulse(Mask, 0, TE)>>
      wf1 == <<pulse(Mask, 0, TE), pulse(0, Mask, TE)>>
  IN  [waves |-> <<wfStart, wfStop, wf0, wf1>>,
       start |-> 0, stop |-> 1, wid0 |-> 2, wid1 |-> 3]

\* a comparison in place of the mask test
BitSet_ge(code, bit) == code >= bit

\* code & bit for bit a power of two (Python's & on unbounded two's complement)
BitSet(code, bit) == (code \div bit) % 2 = 1

\* the loop of send walking the bits from the least significant one
RECURSIVE ChainBits_lsb(_, _, _, _)
ChainBits_lsb(code, bit, i, bits) ==
  IF i >= bits THEN <<>>
  ELSE <<IF BitSet(code, 2 ^ i) THEN _wid1 ELSE _wid0>>
       \o ChainBits_lsb(code, bit, i + 1, bits)

\* the for loop of send: position i of bits, mask bit, shifted right each turn
RECURSIVE ChainBits(_, _, _, _)
ChainBits(code, bit, i, bits) ==
  IF i >= bits THEN <<>>
  ELSE <<IF BitSet(code, bit) THEN _wid1 ELSE _wid0>>
       \o ChainBits(code, bit \div 2, i + 1, bits)

\* the chain send hands to wave_chain
BuildChain(code, bits, repeats) ==
  <<255, 0, _start>> \o ChainBits(code, 2 ^ (bits - 1), 0, bits)
                     \o <<_stop, 255, 1, repeats, 0>>

\* send(code, bits, repeats) up to and including pi.wave_chain(chain);
\* 1 << (bits - 1) raises ValueError for bits <= 0, before any pigpio call
send(code, bits, repeats) ==
  /\ pcTx = "idle"
  /\ req' = [code |-> code, bits |-> bits, repeats |-> repeats]
  /\ IF bits <= 0
       THEN /\ txerr' = "ValueError"
            /\ txops' = <<>>
            /\ UNCHANGED <<chain, txbusy, pcTx>>
       ELSE /\ txerr' = ""
            /\ chain' = BuildChain(code, bits, repeats)
            /\ txops' = <<"wave_chain">>
            /\ txbusy' = TRUE
            /\ pcTx' = "waiting"
  /\ UNCHANGED <<waves, _start, _stop, _wid0, _wid1, pin>>

\* send returning without the final write(tx_pin, 0)
send_return_no_write ==
  /\ pcTx = "waiting"
  /\ ~txbusy
  /\ pcTx' = "idle"
  /\ UNCHANGED <<waves, _start, _stop, _wid0, _wid1, pin, chain, txbusy, txerr, txops, req>>

\* send returning without waiting for wave_tx_busy() to turn false
send_return_early ==
  /\ pcTx = "waiting"
  /\ pin' = 0
  /\ txops' = Append(txops, "write")
  /\ pcTx' = "idle"
  /\ UNCHANGED <<waves, _start, _stop, _wid0, _wid1, chain, txbusy, txerr, req>>

\* the rest of send: wave_tx_busy() returned false, write(tx_pin, 0), return
send_return ==
  /\ pcTx = "waiting"
  /\ ~txbusy
  /\ pin' = 0
  /\ txops' = Append(txops, "write")
  /\ pcTx' = "idle"
  /\ UNCHANGED <<waves, _start, _stop, _wid0, _wid1, chain, txbusy, txerr, req>>

(* the hardware player: pigpio plays the pulses of the chain on the TX pin *)

RECURSIVE Repeat(_, _)
Repeat(s, n) == IF n <= 0 THEN <<>> ELSE s \o Repeat(s, n - 1)

RECURSIVE WavePulses(_, _)
WavePulses(ids, i) ==
  IF i > Len(ids) THEN <<>> ELSE waves[ids[i] + 1] \o WavePulses(ids, i + 1)

\* [255, 0, ids..., 255, 1, x, y]: the ids between the markers, x + 256 y times
ChainPulses(ch) ==
  LET n == Len(ch)
      body == SubSeq(ch, 3, n - 4)
  IN  Repeat(WavePulses(body, 1), ch[n - 1] + (256 * ch[n]))

\* the level changes of the pin while the pulses play: for each one the new
\* level, the time since the previous change and the time since the start
RECURSIVE EdgesOf(_, _, _, _, _)
EdgesOf(pulses, i, level, since, at) ==
  IF i > Len(pulses) THEN <<>>
  ELSE LET p == pulses[i]
           nl == IF p.on = Mask THEN 1 ELSE IF p.off = Mask THEN 0 ELSE level
       IN  IF nl # level
             THEN <<[level |-> nl, len |-> since, at |-> at]>>
                  \o EdgesOf(pulses, i + 1, nl, p.delay, at + p.delay)
             ELSE EdgesOf(pulses, i + 1, level, since + p.delay, at + p.delay)

\* the playback of the chain, cut off after the start cell and k data cells
PlayedEdges(ch, k) ==
  LET all == EdgesOf(ChainPulses(ch), 1, pin, 0, 0)
  IN  SelectSeq(all, LAMBDA e : e.at <= (2 + (2 * k)) * TE)

\* playback ended: wave_tx_busy() turns false
PlayerDone ==
  /\ txbusy
  /\ feed = <<>>
  /\ txbusy' = FALSE
  /\ UNCHANGED <<waves, _start, _stop, _wid0, _wid1, pin, chain, pcTx, txerr, txops, req>>
  /\ UNCHANGED <<rxVars, obsVars, mainVars, busVars, clsVars, appVars>>

Codes == -1 .. ((2 ^ (MaxBits + 1)) - 1)

TxSend ==
  /\ \E code \in Codes, bits \in -1 .. MaxBits, repeats \in 1 .. MaxRepeats :
       send(code, bits, repeats)
  /\ UNCHANGED <<rxVars, obsVars, mainVars, busVars, clsVars, appVars>>

TxReturn ==
  /\ send_return
  /\ UNCHANGED <<rxVars, obsVars, mainVars, busVars, clsVars, appVars>>

(* ---------------------------------------------------------------- Init *)

InitRx ==
  /\ _in_code = 0 /\ _edges = 0 /\ _code = 0 /\ _prev_edge_len = 0
  /\ _timestamps = <<>> /\ _prev = NoAttr
  /\ _cb = TRUE /\ wdog = 0 /\ glitch = GLITCH /\ raised = FALSE
  /\ calls = <<>> /\ attemptBad = FALSE /\ attemptAborted = FALSE /\ timeouts = 0

InitMain == pcMain = "loop" /\ hwlog = <<>>

InitTx ==
  LET w == MakeWaves
  IN  /\ waves = w.waves /\ _start = w.start /\ _stop = w.stop
      /\ _wid0 = w.wid0 /\ _wid1 = w.wid1
      /\ pin = 0 /\ chain = <<>> /\ txbusy = FALSE /\ pcTx = "idle" /\ txerr = ""
      /\ txops = <<>> /\ req = [code |-> 0, bits |-> 0, repeats |-> 0]

InitBus ==
  /\ feed = <<>> /\ phase = "idle" /\ cut = 0 /\ cbCount = 0 /\ frames = <<>>
  /\ trace = <<>> /\ varied = {}

InitCls == tHigh = 0 /\ tLow = 0 /\ tPrev = 0 /\ tOut = <<>>

\* main() of the transmitter programs up to the main loop; the userdata of
\* the MQTT client
InitApp ==
  /\ pcTxMain = "loop" /\ txlog = <<>>
  /\ state = "OFF" /\ current_brightness = 0
  /\ pcMsg = "idle" /\ msg = [topic |-> "", payload |-> 0, from |-> 0]
  /\ cmds = <<>> /\ sent = <<>> /\ published = <<>>

Init == InitRx /\ InitMain /\ InitTx /\ InitBus /\ InitCls /\ InitApp

Next ==
  \/ EdgeEvent
  \/ TimeoutEvent
  \/ KeyboardInterrupt
  \/ OtherExit
  \/ CleanupCancel
  \/ CleanupStop

Spec == Init /\ [][Next]_vars

NextTx ==
  \/ TxSend
  \/ PlayerDone
  \/ TxReturn

SpecTx == Init /\ [][NextTx]_vars

\* the player finishes every chain it was given, and send's polling loop runs
SpecTxFair == SpecTx /\ WF_vars(PlayerDone) /\ WF_vars(TxReturn)

(* -------------------------------------- transmitter wired to the receiver *)

\* the frames the programs send with the default bits = 16:
\* 0xFE00, 0xFEFE, 0xFE75, 0xFE25, 0xFEFF
ProgramFrames == {65024, 65278, 65141, 65061, 65279}

\* every frame of 1 .. MaxBits bits, and the 16 bit frames of the programs
BusFrames ==
  {f \in [code : 0 .. ((2 ^ MaxBits) - 1), bits : 1 .. MaxBits] : f.code < 2 ^ f.bits}
  \cup [code : ProgramFrames, bits : {16}]

\* a measured edge-to-edge time whose nominal value is te or 2 te: anywhere
\* strictly inside the receive window around it
Jitter(nominal) ==
  IF nominal = TE THEN {MIN_TE + 1, TE, MAX_TE - 1}
  ELSE IF nominal = 2 * TE THEN {MIN_2TE + 1, 2 * TE, MAX_2TE - 1}
  ELSE {nominal}

\* time between the previous bus activity and the first edge of a frame
IdleGaps == {TE, 600, 2500}

\* what the latest handler run handed to the user callback
Delivered == [i \in 1 .. Len(calls') |-> calls'[i].frame]

\* send on the bus: the player starts the chain; the bus may go silent after
\* the start cell and k data cells (k = bits: the whole frame is played)
BusSend ==
  /\ phase = "idle"
  /\ \E f \in BusFrames :
       \E k \in 0 .. f.bits :
         /\ send(f.code, f.bits, 1)
         /\ cut' = k
         /\ feed' = PlayedEdges(chain', k)
  /\ phase' = "playing"
  /\ cbCount' = 0
  /\ frames' = <<>>
  /\ UNCHANGED <<trace, varied, rxVars, obsVars, mainVars, clsVars, appVars>>

\* the next edge of the playback reaches the RX pin
BusEdge ==
  /\ phase = "playing"
  /\ feed # <<>>
  /\ LET e == Head(feed)
     IN  \E d \in (IF e.at = 0 THEN IdleGaps ELSE Jitter(e.len)) : _cbe(e.level, d)
  /\ feed' = Tail(feed)
  /\ cbCount' = cbCount + Len(calls')
  /\ frames' = frames \o Delivered
  /\ UNCHANGED <<phase, cut, trace, varied, mainVars, txVars, clsVars, appVars>>

\* the bus stayed silent for the watchdog time
BusTimeout ==
  /\ phase = "playing"
  /\ feed = <<>>
  /\ _cbe(TIMEOUT, 0)
  /\ phase' = "done"
  /\ cbCount' = cbCount + Len(calls')
  /\ frames' = frames \o Delivered
  /\ UNCHANGED <<feed, cut, trace, varied, mainVars, txVars, clsVars, appVars>>

\* ready for the next frame once send has returned
BusIdle ==
  /\ phase = "done"
  /\ pcTx = "idle"
  /\ phase' = "idle"
  /\ UNCHANGED <<feed, cut, cbCount, frames, trace, varied, rxVars, obsVars, mainVars,
                 txVars, clsVars, appVars>>

NextBus ==
  \/ BusSend
  \/ BusEdge
  \/ BusTimeout
  \/ BusIdle
  \/ PlayerDone
  \/ TxReturn

SpecBus == Init /\ [][NextBus]_vars

(* ------------------------------------------- a raw edge trace played twice *)

RECURSIVE SeqsUpTo(_, _)
SeqsUpTo(S, n) ==
  IF n = 0 THEN {<<>>}
  ELSE LET shorter == SeqsUpTo(S, n - 1)
       IN  shorter \cup {Append(q, x) : q \in {r \in shorter : Len(r) = n - 1}, x \in S}

InitReplay ==
  /\ InitRx /\ InitMain /\ InitTx /\ InitCls /\ InitApp
  /\ trace \in SeqsUpTo(Durations, MaxReplay)
  /\ feed = trace /\ phase = "first" /\ cut = 0 /\ cbCount = 0 /\ frames = <<>>
  /\ varied = {}

\* the next edge of the trace; the level alternates as on a real line
ReplayEdge ==
  /\ phase \in {"first", "second"}
  /\ feed # <<>>
  /\ _cbe(Len(feed) % 2, Head(feed))
  /\ feed' = Tail(feed)
  /\ cbCount' = cbCount + Len(calls')
  /\ frames' = frames \o Delivered
  /\ UNCHANGED <<phase, cut, trace, varied, mainVars, txVars, clsVars, appVars>>

\* the watchdog fires after the last edge of the trace; then the trace starts again
ReplayTimeout ==
  /\ phase \in {"first", "second"}
  /\ feed = <<>>
  /\ _cbe(TIMEOUT, 0)
  /\ cbCount' = cbCount + Len(calls')
  /\ frames' = frames \o Delivered
  /\ phase' = IF phase = "first" THEN "second" ELSE "done"
  /\ feed' = IF phase = "first" THEN trace ELSE <<>>
  /\ UNCHANGED <<cut, trace, varied, mainVars, txVars, clsVars, appVars>>

NextReplay ==
  \/ ReplayEdge
  \/ ReplayTimeout

SpecReplay == InitReplay /\ [][NextReplay]_vars

(* ------------------- a raw edge trace and a variant of it, one after the other *)

\* the first stream: the trace as it is
PairEdge ==
  /\ phase = "first"
  /\ ReplayEdge

\* the second stream: any level with each edge, any durations for the first
\* two edges, the durations of the trace from the third edge on
PairVariantEdge ==
  /\ phase = "second"
  /\ feed # <<>>
  /\ LET k == (Len(trace) - Len(feed)) + 1
     IN  \E level \in {0, 1}, d \in (IF k <= 2 THEN Durations ELSE {Head(feed)}) :
           /\ _cbe(level, d)
           /\ varied' = varied \cup (IF level # Len(feed) % 2 THEN {"level"} ELSE {})
                               \cup (IF d # Head(feed) THEN {"duration"} ELSE {})
  /\ feed' = Tail(feed)
  /\ cbCount' = cbCount + Len(calls')
  /\ frames' = frames \o Delivered
  /\ UNCHANGED <<phase, cut, trace, mainVars, txVars, clsVars, appVars>>

NextPair ==
  \/ PairEdge
  \/ PairVariantEdge
  \/ ReplayTimeout

SpecPair == InitReplay /\ [][NextPair]_vars

(* ------------------------------------------------ one call of _decode *)

InitDecode ==
  /\ InitRx /\ InitMain /\ InitTx /\ InitBus /\ InitApp
  /\ \E d \in 0 .. MaxDur, other \in Durations :
       \/ tHigh = d /\ tLow = other
       \/ tHigh = other /\ tLow = d
  /\ tPrev \in {0, 1}
  /\ tOut = <<>>

\* _decode(tHigh, tLow) with _prev = tPrev and an empty accumulator
DecodeCall ==
  /\ tOut = <<>>
  /\ tOut' = <<[high |-> Classify(tHigh), low |-> Classify(tLow),
                aborts |-> DecodeAborts(tPrev, tHigh, tLow),
                result |-> Decode(tPrev, 0, tHigh, tLow)]>>
  /\ UNCHANGED <<tHigh, tLow, tPrev, rxVars, obsVars, mainVars, txVars, busVars, appVars>>

NextDecode == DecodeCall

SpecDecode == InitDecode /\ [][NextDecode]_vars

(* ------------------------- watchdog notifications in flight to _cbe *)

\* the bus changes level: pigpio queues an edge notification for the callback thread
WdogLineEdge ==
  /\ _cb
  /\ Len(feed) < MaxInFlight
  /\ _edges + Len(feed) < MaxEdges
  /\ \E level \in {0, 1}, d \in {TE, 2 * TE} :
       feed' = Append(feed, [level |-> level, len |-> d])
  /\ UNCHANGED <<phase, cut, cbCount, frames, trace, varied>>
  /\ UNCHANGED <<rxVars, obsVars, mainVars, txVars, clsVars, appVars>>

\* the watchdog set by _wdog(2) expires: pigpio queues a timeout notification,
\* and does so again every 2 ms for as long as set_watchdog(gpio, 0) has not run
WdogFire ==
  /\ _cb
  /\ wdog = WDOG_MS
  /\ Len(feed) < MaxInFlight
  /\ feed' = Append(feed, [level |-> TIMEOUT, len |-> 0])
  /\ UNCHANGED <<phase, cut, cbCount, frames, trace, varied>>
  /\ UNCHANGED <<rxVars, obsVars, mainVars, txVars, clsVars, appVars>>

\* the callback thread hands the oldest notification to _cbe
WdogDeliver ==
  /\ feed # <<>>
  /\ _cbe(Head(feed).level, Head(feed).len)
  /\ feed' = Tail(feed)
  /\ UNCHANGED <<phase, cut, cbCount, frames, trace, varied>>
  /\ UNCHANGED <<mainVars, txVars, clsVars, appVars>>

NextWdog ==
  \/ WdogLineEdge
  \/ WdogFire
  \/ WdogDeliver

SpecWdog == Init /\ [][NextWdog]_vars

(* ------------------------------------ the transmitter programs' main *)

\* DaliTransmitter.cancel(): the four wave_delete calls, unconditionally
tx_cancel ==
  txlog' = txlog \o <<<<"wave_delete", _start>>, <<"wave_delete", _stop>>,
                      <<"wave_delete", _wid0>>, <<"wave_delete", _wid1>>>>

\* a menu choice 1 .. 6 of test_waves.py: send while the main loop runs
MenuSend ==
  /\ pcTxMain = "loop"
  /\ TxSend

\* menu choice 7 (break), or loop_stop() of the bridge after Ctrl+C: the
\* explicit cleanup() at the end of main follows
MainExit ==
  /\ pcTxMain = "loop"
  /\ pcTx = "idle"
  /\ pcMsg = "idle"
  /\ pcTxMain' = "cleanup_cancel"
  /\ UNCHANGED <<txlog, mqttVars, rxVars, obsVars, mainVars, txVars, busVars, clsVars>>

\* Ctrl+C while send waits for the player: the exception leaves send
MainInterrupt ==
  /\ pcTxMain = "loop"
  /\ pcTx = "waiting"
  /\ pcMsg = "idle"
  /\ pcTx' = "idle"
  /\ pcTxMain' = "cleanup_cancel"
  /\ UNCHANGED <<waves, _start, _stop, _wid0, _wid1, pin, chain, txbusy, txerr, txops, req>>
  /\ UNCHANGED <<txlog, mqttVars, rxVars, obsVars, mainVars, busVars, clsVars>>

\* any other exception in the loop: only the atexit handler runs cleanup
MainOtherExit ==
  /\ pcTxMain = "loop"
  /\ pcTx = "idle"
  /\ pcMsg = "idle"
  /\ pcTxMain' = "atexit_cancel"
  /\ UNCHANGED <<txlog, mqttVars, rxVars, obsVars, mainVars, txVars, busVars, clsVars>>

\* cleanup(), first statement: transmitter.cancel()
TxCleanupCancel ==
  /\ pcTxMain \in {"cleanup_cancel", "atexit_cancel"}
  /\ tx_cancel
  /\ pcTxMain' = IF pcTxMain = "cleanup_cancel" THEN "cleanup_stop" ELSE "atexit_stop"
  /\ UNCHANGED <<mqttVars, rxVars, obsVars, mainVars, txVars, busVars, clsVars>>

\* cleanup(), second statement: pi.stop(); after the explicit call atexit
\* runs cleanup once more
TxCleanupStop ==
  /\ pcTxMain \in {"cleanup_stop", "atexit_stop"}
  /\ txlog' = Append(txlog, <<"pi_stop">>)
  /\ pcTxMain' = IF pcTxMain = "cleanup_stop" THEN "atexit_cancel" ELSE "exited"
  /\ UNCHANGED <<mqttVars, rxVars, obsVars, mainVars, txVars, busVars, clsVars>>

NextTxMain ==
  \/ MenuSend
  \/ PlayerDone
  \/ TxReturn
  \/ MainExit
  \/ MainInterrupt
  \/ MainOtherExit
  \/ TxCleanupCancel
  \/ TxCleanupStop

SpecTxMain == Init /\ [][NextTxMain]_vars

(* ------------------------------------------------- MQTT bridge on_message *)

\* a | b for non-negative integers
RECURSIVE BitOr(_, _)
BitOr(a, b) ==
  IF a = 0 THEN b
  ELSE IF b = 0 THEN a
  ELSE (2 * BitOr(a \div 2, b \div 2)) + (IF (a % 2) + (b % 2) > 0 THEN 1 ELSE 0)

\* list(range(from, to, step)) for step 1 or -1
RECURSIVE Range(_, _, _)
Range(from, to, step) ==
  IF (step > 0 /\ from >= to) \/ (step < 0 /\ from <= to) THEN <<>>
  ELSE <<from>> \o Range(from + step, to, step)

\* 0xFE00: broadcast direct arc power
ARC == 65024

\* the brightness frames without the final send of the target
RampCommands_no_final(current, target) ==
  LET step_size == IF target > current THEN 1 ELSE -1
      steps == Range(current, target, step_size)
  IN  [i \in 1 .. Len(steps) |-> BitOr(ARC, steps[i])]

\* the frames of the brightness topic: one per step of the loop, then the target
RampCommands(current, target) ==
  LET step_size == IF target > current THEN 1 ELSE -1
      steps == Range(current, target, step_size)
  IN  [i \in 1 .. Len(steps) |-> BitOr(ARC, steps[i])] \o <<BitOr(ARC, target)>>

\* the seven frames of the color_temperature topic
ColorCommands(payload) ==
  LET clamped == IF payload > 500 THEN 500 ELSE payload
      mired == IF clamped < 154 THEN 154 ELSE clamped
      reversed_mired == 500 - (mired - 154)
      msb == reversed_mired \div 256
      lsb == reversed_mired % 256
  IN  <<65278, BitOr(41728, lsb), BitOr(49920, msb), 49416, 65511, 49416, 65506>>

\* the frames on_message sends for a message, in order
Commands(topic, payload) ==
  IF topic = "set"
    THEN IF payload = "ON" THEN (IF state = "OFF" THEN <<65278>> ELSE <<>>)
         ELSE IF payload = "OFF" THEN <<ARC>>
         ELSE <<>>
  ELSE IF topic = "brightness/set" THEN RampCommands(current_brightness, payload)
  ELSE ColorCommands(payload)

Messages ==
  [topic : {"set"}, payload : {"ON", "OFF"}]
  \cup [topic : {"brightness/set"}, payload : 0 .. MaxLevel]
  \cup [topic : {"color_temperature/set"}, payload : {100, 154, 300, 500, 600}]

\* the network thread calls on_message(client, userdata, msg)
on_message ==
  /\ pcTxMain = "loop"
  /\ pcMsg = "idle"
  /\ pcTx = "idle"
  /\ \E m \in Messages :
       /\ msg' = [topic |-> m.topic, payload |-> m.payload, from |-> current_brightness]
       /\ cmds' = Commands(m.topic, m.payload)
  /\ sent' = <<>>
  /\ pcMsg' = "busy"
  /\ UNCHANGED <<state, current_brightness, published, txMainVars,
                 rxVars, obsVars, mainVars, txVars, busVars, clsVars>>

\* the next userdata["transmitter"].send(command) of the running on_message;
\* the brightness topic stores the target before its last send
on_message_send ==
  /\ pcMsg = "busy"
  /\ cmds # <<>>
  /\ send(Head(cmds), 16, 1)
  /\ cmds' = Tail(cmds)
  /\ sent' = Append(sent, Head(cmds))
  /\ current_brightness' = IF msg.topic = "brightness/set" /\ Len(cmds) = 1
                             THEN msg.payload ELSE current_brightness
  /\ UNCHANGED <<state, pcMsg, msg, published, txMainVars,
                 rxVars, obsVars, mainVars, busVars, clsVars>>

\* the end of on_message: userdata["state"] and client.publish
on_message_return ==
  /\ pcMsg = "busy"
  /\ cmds = <<>>
  /\ pcTx = "idle"
  /\ IF msg.topic = "set"
       THEN IF sent # <<>>
              THEN /\ state' = msg.payload
                   /\ published' = <<"state", msg.payload>>
              ELSE UNCHANGED <<state, published>>
       ELSE /\ published' = <<IF msg.topic = "brightness/set" THEN "brightness"
                                ELSE "color_temperature", msg.payload>>
            /\ UNCHANGED state
  /\ pcMsg' = "idle"
  /\ UNCHANGED <<current_brightness, msg, cmds, sent, txMainVars,
                 rxVars, obsVars, mainVars, txVars, busVars, clsVars>>

NextMqtt ==
  \/ on_message
  \/ on_message_send
  \/ on_message_return
  \/ PlayerDone
  \/ TxReturn
  \/ MainExit
  \/ MainOtherExit
  \/ TxCleanupCancel
  \/ TxCleanupStop

SpecMqtt == Init /\ [][NextMqtt]_vars

(* ----------------------------------------------------------- properties *)

\* C1: a frame of n bits with value v < 2^n, played whole by the transmitter
\* with every segment inside its receive window and followed by one watchdog
\* timeout, makes the receiver invoke the user callback exactly once, with v.
RoundTrip ==
  (phase = "done" /\ cut = req.bits) => (cbCount = 1 /\ frames = <<req.code>>)

RoundTripWitness ==
  /\ phase = "done" /\ cut = req.bits
  /\ req.bits = 16 /\ req.code = 65024
  /\ frames = <<65024>>

\* C2: when a segment after the start bit lies outside both windows, the
\* timeout that ends the attempt does not invoke the user callback.
NoFrameAfterBadSegment ==
  \A i \in 1 .. Len(calls) : ~calls[i].bad

\* C3: the user callback is invoked only by a timeout event and only when at
\* least one edge arrived since the last reset; a timeout on an idle decoder
\* invokes nothing.
CallbackOnlyForFrameInProgress ==
  \A i \in 1 .. Len(calls) : calls[i].level = TIMEOUT /\ calls[i].edges >= 1

\* C4: when only the edges of the first k < n data bits arrive before the
\* watchdog fires, the callback is invoked once with the value of those k
\* bits, and the decoder is idle afterwards (edge count 0, accumulator 0).
PartialFrameDelivered ==
  (phase = "done" /\ cut < req.bits) =>
     /\ cbCount = 1
     /\ frames = <<req.code \div (2 ^ (req.bits - cut))>>
     /\ _edges = 0
     /\ _code = 0

\* C5: the same sequence of edge durations, fed twice with a watchdog timeout
\* after each pass, delivers the same frame value both times.
ReplayDeterministic ==
  phase = "done" => (Len(frames) = 2 /\ frames[1] = frames[2])

ReplayWitness ==
  /\ phase = "done"
  /\ Len(trace) >= 6
  /\ \E i \in 3 .. Len(trace) : Classify(trace[i]) = "INVALID"
  /\ frames[1] # 0
  /\ frames[1] = frames[2]

\* C6: the timestamps list given to the callback has one entry for every edge
\* of the attempt: its length is the edge count of the attempt.
TraceComplete ==
  \A i \in 1 .. Len(calls) :
    calls[i].edges >= 1 => Len(calls[i].timestamps) = calls[i].edges

\* C7: send with bits <= 0, code >= 2^bits or code < 0 reports an error and
\* issues no wave_chain call and no pin write.
RejectsOutOfRange ==
  (req.repeats >= 1 /\ (req.bits <= 0 \/ req.code < 0 \/ req.code >= 2 ^ req.bits))
    => (txerr # "" /\ txops = <<>>)

\* C8: the chain given to wave_chain is the loop-begin marker, the start
\* wave, the bits data waves most significant bit first, the stop wave and
\* the loop-end marker with the repeat count; start wave and '1' wave have
\* the same two halves.
WireOrder ==
  txops # <<>> =>
    LET n == req.bits
    IN  /\ Len(chain) = n + 8
        /\ SubSeq(chain, 1, 3) = <<255, 0, _start>>
        /\ \A i \in 0 .. (n - 1) :
             chain[4 + i] = (IF (req.code \div (2 ^ (n - 1 - i))) % 2 = 1
                               THEN _wid1 ELSE _wid0)
        /\ SubSeq(chain, n + 4, n + 8) = <<_stop, 255, 1, req.repeats, 0>>
        /\ _wid0 # _wid1
        /\ Len(waves[_start + 1]) = 2
        /\ waves[_start + 1] = waves[_wid1 + 1]

WireOrderWitness ==
  /\ txops = <<"wave_chain">>
  /\ req = [code |-> 6, bits |-> 3, repeats |-> 2]
  /\ chain = <<255, 0, _start, _wid1, _wid1, _wid0, _stop, 255, 1, 2, 0>>

InWindow(d, lo, hi) == lo < d /\ d < hi

ClassOf(d) ==
  IF InWindow(d, 350, 490) THEN "SHORT"
  ELSE IF InWindow(d, 760, 900) THEN "LONG"
  ELSE "INVALID"

\* C9: a duration d is SHORT exactly when 350 < d < 490, LONG exactly when
\* 760 < d < 900 and INVALID otherwise, for the first and for the second half
\* of a cell alike; only LONG sets the half's bit of the action code and
\* INVALID aborts.
TimingClassification ==
  tOut # <<>> =>
    LET o == tOut[1]
    IN  /\ o.high = ClassOf(tHigh)
        /\ o.low = ClassOf(tLow)
        /\ ~(InWindow(tHigh, 350, 490) /\ InWindow(tHigh, 760, 900))
        /\ (o.result.action % 2 = 1) <=> InWindow(tHigh, 760, 900)
        /\ ((o.result.action \div 2) % 2 = 1) <=> InWindow(tLow, 760, 900)
        /\ ("INVALID" \in {ClassOf(tHigh), ClassOf(tLow)}) => o.aborts
        /\ (tHigh = 417 => o.high = "SHORT")
        /\ (tHigh = 834 => o.high = "LONG")
        /\ (tHigh = 600 => o.high = "INVALID")

TimingClassificationWitness ==
  /\ tOut # <<>>
  /\ tHigh = 489 /\ tOut[1].high = "SHORT"
  /\ tLow = 600 /\ tOut[1].low = "INVALID"

Count(op) == Cardinality({i \in 1 .. Len(hwlog) : hwlog[i] = op})

TeardownState ==
  /\ \A i \in 1 .. Len(hwlog) :
       hwlog[i] = "pi_stop" =>
         /\ \E j \in 1 .. (i - 1) : hwlog[j] = "set_watchdog"
         /\ \E j \in 1 .. (i - 1) : hwlog[j] = "cb_cancel"
  /\ Count("set_glitch_filter") <= 1
  /\ Count("set_watchdog") <= 1
  /\ Count("cb_cancel") <= 1
  /\ (Count("cb_cancel") = 1 => (~_cb /\ wdog = 0))

SendSynchronous ==
  /\ [][(pcTx = "waiting" /\ pcTx' = "idle") =>
          /\ ~txbusy
          /\ txops = <<"wave_chain">>
          /\ txops' = <<"wave_chain", "write">>
          /\ pin' = 0]_vars
  /\ ((pcTx = "waiting") ~> (pcTx = "idle"))

SendSynchronousWitness ==
  /\ pcTx = "idle" /\ ~txbusy
  /\ req.bits = MaxBits
  /\ txops = <<"wave_chain", "write">>
  /\ pin = 0

\* C12: transmissions are mutually exclusive: the player is busy only while a
\* send is between its wave_chain call and its observation of not busy, and
\* the bridge never issues a new wave_chain while the previous chain plays.
TxExclusive ==
  /\ [](txbusy => pcTx = "waiting")
  /\ [][(pcTx = "idle" /\ pcTx' = "waiting") => ~txbusy]_vars

TxExclusiveWitness ==
  /\ pcMsg = "busy"
  /\ Len(sent) >= 2
  /\ pcTx = "waiting"
  /\ txbusy

\* C13: no call of _cbe raises an error from the decoder: _decode never reads
\* _prev before it has been assigned, and _prev is 0 or 1 whenever it can be read.
DecoderNeverRaises ==
  /\ ~raised
  /\ (_edges >= 1 => _prev \in {0, 1})

DecoderNeverRaisesWitness ==
  /\ _cb
  /\ ~raised
  /\ _edges >= 4
  /\ _prev = 0
  /\ attemptBad

\* C14: the watchdog is armed exactly when at least one edge was handled since
\* the last delivery, and between two consecutive edges at most one timeout is
\* handled (at most one delivery per frame).
WatchdogProtocol ==
  /\ (_cb => (wdog = WDOG_MS <=> _edges >= 1))
  /\ timeouts <= 1

\* C15: a malformed cell (both halves LONG, or any other illegal pairing)
\* aborts the attempt: the decoder is idle again (edge count 0), the accumulator
\* is discarded, and the following timeout delivers no frame for that attempt.
AbortOnMalformedCell ==
  /\ (attemptAborted => (_edges = 0 /\ _code = 0))
  /\ \A i \in 1 .. Len(calls) : ~calls[i].aborted

\* C16: for bits >= 1 and a non-negative code, send(code, bits) builds exactly
\* the chain of send(code mod 2^bits, bits), with exactly bits data waves.
TruncationByMasking ==
  (txerr = "" /\ txops # <<>> /\ req.bits >= 1 /\ req.code >= 0) =>
     /\ chain = BuildChain(req.code % (2 ^ req.bits), req.bits, req.repeats)
     /\ Len(chain) = req.bits + 8
     /\ \A i \in 1 .. req.bits : chain[3 + i] \in {_wid0, _wid1}

TruncationByMaskingWitness ==
  /\ txerr = ""
  /\ txops = <<"wave_chain">>
  /\ req.bits = 2
  /\ req.code >= 2 ^ req.bits
  /\ SubSeq(chain, 4, 5) = <<_wid0, _wid1>>

RECURSIVE SumDelays(_, _)
SumDelays(pulses, i) ==
  IF i > Len(pulses) THEN 0 ELSE pulses[i].delay + SumDelays(pulses, i + 1)

PinOn(p) == p.on = Mask /\ p.off = 0
PinOff(p) == p.on = 0 /\ p.off = Mask

\* the pulses of one repetition of the chain
FramePulses == WavePulses(SubSeq(chain, 3, Len(chain) - 4), 1)

\* C17: start and data waves are two segments of te with opposite levels
\* ('1' on then off, '0' off then on), the stop wave is one pin-off segment of
\* 2 te; a frame of n bits has 2 n + 2 half-bit segments plus the stop, lasts
\* (2 n + 4) te and ends with the pin at level 0.
PulseTrainShape ==
  /\ \A id \in {_start, _wid1} :
       /\ Len(waves[id + 1]) = 2
       /\ PinOn(waves[id + 1][1]) /\ waves[id + 1][1].delay = TE
       /\ PinOff(waves[id + 1][2]) /\ waves[id + 1][2].delay = TE
  /\ Len(waves[_wid0 + 1]) = 2
  /\ PinOff(waves[_wid0 + 1][1]) /\ waves[_wid0 + 1][1].delay = TE
  /\ PinOn(waves[_wid0 + 1][2]) /\ waves[_wid0 + 1][2].delay = TE
  /\ waves[_stop + 1] = <<pulse(0, Mask, 2 * TE)>>
  /\ (txerr = "" /\ txops # <<>>) =>
       LET n == req.bits
           ps == FramePulses
       IN  /\ Len(ps) = (2 * n) + 3
           /\ \A i \in 1 .. (2 * n) + 2 : ps[i].delay = TE
           /\ \A c \in 1 .. n + 1 : PinOn(ps[(2 * c) - 1]) # PinOn(ps[2 * c])
           /\ SumDelays(ps, 1) = ((2 * n) + 4) * TE
           /\ PinOff(ps[Len(ps)])
           /\ Len(ChainPulses(chain)) = req.repeats * Len(ps)
           /\ PinOff(ChainPulses(chain)[Len(ChainPulses(chain))])

PulseTrainShapeWitness ==
  /\ txerr = ""
  /\ txops = <<"wave_chain">>
  /\ req.bits = MaxBits
  /\ req.repeats = MaxRepeats
  /\ \E i, j \in 4 .. 3 + MaxBits : chain[i] = _wid0 /\ chain[j] = _wid1
  /\ Len(FramePulses) = (2 * MaxBits) + 3

\* the value _decode accumulates over the cells durs[i], durs[i + 1], ...
RECURSIVE ValueOf(_, _, _, _)
ValueOf(durs, i, p, c) ==
  IF i + 1 > Len(durs) THEN c
  ELSE LET r == Decode(p, c, durs[i], durs[i + 1])
       IN  ValueOf(durs, i + 2, r.prev, r.code)

Deletes(id) == Cardinality({i \in 1 .. Len(txlog) : txlog[i] = <<"wave_delete", id>>})

\* C19: on every exit path of the transmitter's main each of the four wave ids
\* is deleted exactly once, and no wave operation is issued on the pi handle
\* after pi.stop().
TxTeardownOnce ==
  /\ \A id \in {_start, _stop, _wid0, _wid1} :
       /\ Deletes(id) <= 1
       /\ (pcTxMain = "exited" => Deletes(id) = 1)
  /\ \A i \in 1 .. Len(txlog) :
       txlog[i] = <<"pi_stop">> =>
         \A j \in (i + 1) .. Len(txlog) : txlog[j][1] # "wave_delete"

\* 0xFE00 | b for b = c, c +- 1, ... up to but not including t, then 0xFE00 | t
ExpectedRamp(c, t) ==
  LET dist == IF t > c THEN t - c ELSE c - t
      dir == IF t > c THEN 1 ELSE -1
  IN  [i \in 1 .. dist + 1 |-> BitOr(65024, IF i <= dist THEN c + (dir * (i - 1)) ELSE t)]

\* C20: a brightness/set message with target t and stored brightness c sends
\* 0xFE00|b for every b from c towards t (c included, t excluded), then
\* 0xFE00|t; afterwards current_brightness = t; t = c sends exactly one frame.
BrightnessRamp ==
  msg.topic = "brightness/set" =>
     LET want == ExpectedRamp(msg.from, msg.payload)
     IN  /\ Len(sent) <= Len(want)
         /\ sent = SubSeq(want, 1, Len(sent))
         /\ (pcMsg = "idle" =>
               /\ sent = want
               /\ current_brightness = msg.payload
               /\ (msg.from = msg.payload => Len(sent) = 1)
               /\ published = <<"brightness", msg.payload>>)

BrightnessRampWitness ==
  /\ pcMsg = "idle"
  /\ msg.topic = "brightness/set"
  /\ msg.from = MaxLevel
  /\ msg.payload = 0
  /\ Len(sent) = MaxLevel + 1
  /\ sent[1] = 65024 + MaxLevel
  /\ current_brightness = 0

====
